---- MODULE Spec2Model ----
(***************************************************************************)
(* futures-util/src/io/read_to_end.rs: the ReadToEnd future.               *)
(*                                                                         *)
(* The state is the borrowed Vec<u8> (its length, its capacity and the     *)
(* cells of its allocation), the Guard that read_to_end_internal builds    *)
(* around it, the position of the running poll call, and the value the     *)
(* last poll call returned.  The reader (AsyncRead) is the environment:    *)
(* every poll_read call is answered by one outcome chosen among Ok(n),     *)
(* Pending, Err(e) and an unwind.  The trait is safe to implement, so the  *)
(* n of Ok(n) is whatever the reader says: it may exceed the size of the   *)
(* slice it was given, and be large enough for g.len += n to overflow,     *)
(* which panics in a build with overflow checks and wraps in one without.  *)
(***************************************************************************)
EXTENDS Integers, Sequences, FiniteSets, TLC

(* ------------------------------ bounds --------------------------------- *)

\* Length of the original content of the buffer, when it is not empty.
MaxOrig == 2

\* Number of non-terminal reader outcomes (chunks, suspends) in a behaviour.
MaxCalls == 3

\* Number of poll calls made after a Ready value or an unwind.
MaxExtra == 1

\* How far past the slice size a reader's reported count may go.
MaxOver == 1

\* Bytes held by the reader of the draining runs (Scenario D's payload).
MaxPayload == 1000

\* Number of non-terminal reader outcomes in a draining run.
MaxDrainReads == 7

(* ------------------------- program constants --------------------------- *)

\* g.buf.reserve(32)
ReserveSize == 32

\* The range of usize, the type of Guard::len and of the n of Ok(n): 2^16,
\* the narrowest usize there is; wider ones wrap in the same way.
UsizeRange == 65536

\* The io::Error values a reader may return (two, to tell them apart).
Errors == {1, 2}

(* ------------------------------ cells ---------------------------------- *)
(* A cell of the allocation records what wrote it last, so that an         *)
(* uninitialized byte, a byte of the initializer and the k-th byte of the  *)
(* reader's stream are told apart.                                         *)

\* Storage exposed by set_len(capacity) that nothing has written.
Uninit == -1

\* A byte written by Initializer::initialize (zeroing).
Zeroed == 0

\* An index at or past the capacity: outside the allocation.
OutOfAlloc == -2

\* The i-th byte (1-based) of the content the buffer had before the operation.
OrigByte(i) == 0 - (10 + i)

\* The p-th byte (1-based) the reader has produced.
SrcByte(p) == p

VARIABLES
    buf_len,    \* Vec::len of the buffer
    buf_cap,    \* Vec::capacity of the buffer
    mem,        \* the allocation: cell i (1-based) for i in 1..buf_cap
    g_len,      \* Guard::len of the running call (the committed length)
    pc,         \* "idle": no call is running; "top": at the top of the loop;
                \* "read": about to call poll_read
    ret,        \* what the last poll call did: "none", "pending", "ok",
                \* "err", or "unwind" (it panicked)
    ret_err,    \* the error of Poll::Ready(Err(e)); 0 when there is none
    trusted,    \* the reader's initializer() is Initializer::nop()
    overflow_checks, \* the build panics on integer overflow (else it wraps)
    orig,       \* history: the content before the operation
    hist,       \* history: the reader's outcomes, in order
    reads,      \* history: poll_read calls made by the running (last) call
    entry,      \* history: the buffer content when the running call began
    entry_hist, \* history: the number of outcomes when the running call began
    done,       \* history: a poll call has returned Ready
    late,       \* history: the running (last) call began after a Ready
    extra,      \* history: poll calls made after a Ready or an unwind
    cap0,       \* history: the capacity before the operation
    grown       \* history: reserve calls that enlarged the capacity

vars == <<buf_len, buf_cap, mem, g_len, pc, ret, ret_err, trusted,
          overflow_checks, orig, hist, reads, entry, entry_hist, done, late,
          extra, cap0, grown>>

Max(a, b) == IF a >= b THEN a ELSE b

(* --------------------------- the buffer (Vec) --------------------------- *)

\* Mutant of Reserve: the capacity is enlarged only when none is spare.
Reserve_onlyWhenFull(cap, len, additional) ==
    IF len # cap
    THEN cap
    ELSE Max(2 * cap, len + additional)

\* Mutant of Reserve: the capacity is never enlarged.
Reserve_never(cap, len, additional) == cap

\* Mutant of Reserve: the capacity grows by the fixed increment asked for.
Reserve_linear(cap, len, additional) ==
    IF len > cap \/ cap - len >= additional
    THEN cap
    ELSE len + additional

\* Vec::reserve(additional) as g.buf.reserve(32) uses it: nothing when the
\* spare capacity suffices (the subtraction wraps when len > cap), else the
\* amortized growth max(2 * cap, len + additional).
Reserve(cap, len, additional) ==
    IF len > cap \/ cap - len >= additional
    THEN cap
    ELSE Max(2 * cap, len + additional)

\* Mutant of Realloc: the new allocation does not get the old content.
Realloc_lose(m, len, oldcap, newcap) ==
    IF newcap = oldcap
    THEN m
    ELSE [i \in 1..newcap |-> Uninit]

\* The allocation after reserve: the first len cells are kept; a new
\* allocation's other cells are uninitialized.
Realloc(m, len, oldcap, newcap) ==
    IF newcap = oldcap
    THEN m
    ELSE [i \in 1..newcap |-> IF i <= len THEN m[i] ELSE Uninit]

\* Vec::set_len(capacity): cells exposed without being written.
SetLenToCapacity(capacity) == capacity

\* Mutant of Initialize: the slice is never zeroed.
Initialize_never(m, from, to, nop) == m

\* Initializer::initialize(&mut g.buf[g.len..]): zeroes the slice, unless the
\* reader's initializer is nop.
Initialize(m, from, to, nop) ==
    IF nop
    THEN m
    ELSE [i \in DOMAIN m |-> IF i > from /\ i <= to THEN Zeroed ELSE m[i]]

\* Mutant of GuardNew: every call starts again from an empty committed length.
GuardNew_restart(blen) == 0

\* Guard { len: buf.len(), buf }: the committed length a call starts from.
GuardNew(blen) == blen

\* Mutant of GuardDrop: the length is left where the growth step put it.
GuardDrop_forget(glen, blen, path) == blen

\* Guard::drop: self.buf.set_len(self.len), whatever the path that drops the
\* Guard ("ok", "err" and "pending" for the returns, "unwind" for a panic).
GuardDrop(glen, blen, path) == glen

\* The content a holder of the Vec sees: its first buf_len cells.
Content ==
    [i \in 1..buf_len |-> IF i <= buf_cap THEN mem[i] ELSE OutOfAlloc]

(* ------------------------------ the reader ------------------------------ *)

\* Bytes the reader has produced so far (its stream position).
RECURSIVE Produced(_)
Produced(h) ==
    IF h = <<>> THEN 0
    ELSE Produced(SubSeq(h, 1, Len(h) - 1)) +
         (IF h[Len(h)][1] = "chunk" THEN h[Len(h)][2] ELSE 0)

\* Bytes the reader has reported as read so far.
RECURSIVE Reported(_)
Reported(h) ==
    IF h = <<>> THEN 0
    ELSE Reported(SubSeq(h, 1, Len(h) - 1)) +
         (IF h[Len(h)][1] \in {"chunk", "over", "wrap"} THEN h[Len(h)][3] ELSE 0)

\* poll_read writing n bytes of its stream at the start of the slice
\* g.buf[g.len..].
WriteSlice(m, start, n, pos) ==
    [i \in DOMAIN m |->
        IF i > start /\ i <= start + n THEN SrcByte(pos + (i - start)) ELSE m[i]]

\* The sizes of chunk tried for a slice of the given size.
ChunkSizes(slice) == {n \in {5, 10, slice} : n >= 1 /\ n <= slice}

(* ------------------------------ the state ------------------------------- *)

Init ==
    /\ \E n \in {0, MaxOrig} :
        /\ orig = [i \in 1..n |-> OrigByte(i)]
        /\ buf_len = n
        /\ \E c \in {n, ReserveSize} :
            /\ buf_cap = c
            /\ cap0 = c
            /\ mem = [i \in 1..c |-> IF i <= n THEN OrigByte(i) ELSE Uninit]
    /\ trusted \in BOOLEAN
    /\ overflow_checks \in BOOLEAN
    /\ g_len = 0
    /\ pc = "idle"
    /\ ret = "none"
    /\ ret_err = 0
    /\ hist = <<>>
    /\ reads = 0
    /\ entry = <<>>
    /\ entry_hist = 0
    /\ done = FALSE
    /\ late = FALSE
    /\ extra = 0
    /\ grown = 0

\* The running call ends: the Guard is dropped, then the value is returned
\* (or the unwind goes on).
Return(glen, value, e) ==
    /\ buf_len' = GuardDrop(glen, buf_len, value)
    /\ pc' = "idle"
    /\ ret' = value
    /\ ret_err' = e
    /\ done' = (done \/ value \in {"ok", "err"})

\* ReadToEnd::poll calls read_to_end_internal, which builds the Guard:
\* Guard { len: buf.len(), buf }.
Poll ==
    /\ pc = "idle"
    /\ Len(hist) <= MaxCalls
    /\ IF ret \in {"none", "pending"}
       THEN extra' = extra
       ELSE extra < MaxExtra /\ extra' = extra + 1
    /\ g_len' = GuardNew(buf_len)
    /\ entry' = Content
    /\ entry_hist' = Len(hist)
    /\ reads' = 0
    /\ late' = done
    /\ pc' = "top"
    /\ UNCHANGED <<buf_len, buf_cap, mem, ret, ret_err, trusted, overflow_checks,
                   orig, hist, done, cap0, grown>>

\* The top of the loop when g.len == g.buf.len(): reserve(32), set_len to the
\* capacity, initialize the slice g.buf[g.len..]; the slicing panics when
\* g.len is past the new length.
Grow ==
    /\ pc = "top"
    /\ g_len = buf_len
    /\ LET capacity == Reserve(buf_cap, buf_len, ReserveSize)
           m == Realloc(mem, buf_len, buf_cap, capacity)
           newlen == SetLenToCapacity(capacity)
       IN  /\ buf_cap' = capacity
           /\ IF g_len <= newlen
              THEN /\ mem' = Initialize(m, g_len, newlen, trusted)
                   /\ buf_len' = newlen
                   /\ pc' = "read"
                   /\ UNCHANGED <<ret, ret_err, done>>
              ELSE /\ mem' = m
                   /\ Return(g_len, "unwind", 0)
           /\ grown' = IF capacity > buf_cap THEN grown + 1 ELSE grown
    /\ UNCHANGED <<g_len, trusted, overflow_checks, orig, hist, reads, entry,
                   entry_hist, late, extra, cap0>>

\* The top of the loop when g.len != g.buf.len(): no growth; the slicing
\* &mut g.buf[g.len..] of the poll_read call panics when g.len is past the
\* length.
NoGrow ==
    /\ pc = "top"
    /\ g_len # buf_len
    /\ IF g_len <= buf_len
       THEN /\ pc' = "read"
            /\ UNCHANGED <<buf_len, ret, ret_err, done>>
       ELSE Return(g_len, "unwind", 0)
    /\ UNCHANGED <<buf_cap, mem, g_len, trusted, overflow_checks, orig, hist, reads,
                   entry,
                   entry_hist, late, extra, cap0, grown>>

\* Mutant of Match: Ok(0) is taken for "nothing yet" and returns Pending.
Match_eofPending(kind) ==
    CASE kind = "eof" -> "pending"
      [] kind = "pending" -> "pending"
      [] kind = "err" -> "err"
      [] OTHER -> "continue"

\* Mutant of Match: an error is retried inside the loop.
Match_retryOnErr(kind) ==
    CASE kind = "eof" -> "ok"
      [] kind = "pending" -> "pending"
      [] OTHER -> "continue"

\* Mutant of Match: Ok(0) is taken for an empty chunk and the loop goes on.
Match_eofContinue(kind) ==
    CASE kind = "pending" -> "pending"
      [] kind = "err" -> "err"
      [] OTHER -> "continue"

\* The arm of the match on poll_read's value that each outcome takes:
\* Ok(0) breaks with Ready(Ok(())), Ok(n) goes round the loop, Pending
\* returns Pending, Err(e) breaks with Ready(Err(e)).
Match(kind) ==
    CASE kind = "eof" -> "ok"
      [] kind = "pending" -> "pending"
      [] kind = "err" -> "err"
      [] OTHER -> "continue"

\* ret = Poll::Ready(Err(e)): the error is moved into the result.
ErrValue(e) == e

\* g.len += n overflows usize.
Overflows(glen, n) == glen + n >= UsizeRange

\* g.len += n in a build without overflow checks.
WrappingAdd(glen, n) == (glen + n) % UsizeRange

\* The match on poll_read's value, for the outcome kind with the count n it
\* reports and the error e it carries.  With overflow checks an overflowing
\* g.len += n panics, and the unwind drops the Guard.
Handle(kind, n, e) ==
    IF Match(kind) = "continue"
    THEN IF overflow_checks /\ Overflows(g_len, n)
         THEN /\ g_len' = g_len
              /\ Return(g_len, "unwind", 0)
         ELSE /\ g_len' = WrappingAdd(g_len, n)
              /\ pc' = "top"
              /\ UNCHANGED <<buf_len, ret, ret_err, done>>
    ELSE /\ g_len' = g_len
         /\ Return(g_len, Match(kind), IF Match(kind) = "err" THEN ErrValue(e) ELSE 0)

\* poll_read returns Poll::Ready(Ok(n)) with 0 < n <= the slice size, having
\* written n bytes: g.len += n.
ReadChunk ==
    /\ pc = "read"
    /\ Len(hist) < MaxCalls
    /\ \E n \in ChunkSizes(buf_len - g_len) :
        /\ mem' = WriteSlice(mem, g_len, n, Produced(hist))
        /\ hist' = Append(hist, <<"chunk", n, n>>)
        /\ Handle("chunk", n, 0)
    /\ reads' = reads + 1
    /\ UNCHANGED <<buf_cap, trusted, overflow_checks, orig, entry,
                   entry_hist, late, extra, cap0, grown>>

\* poll_read returns Poll::Ready(Ok(n)) with n past the slice size, having
\* written nothing: g.len += n all the same.
ReadOver ==
    /\ pc = "read"
    /\ Len(hist) < MaxCalls
    /\ \E k \in 1..MaxOver :
        LET n == (buf_len - g_len) + k
        IN  /\ hist' = Append(hist, <<"over", 0, n>>)
            /\ Handle("over", n, 0)
    /\ reads' = reads + 1
    /\ UNCHANGED <<buf_cap, mem, trusted, overflow_checks, orig, entry,
                   entry_hist, late, extra, cap0, grown>>

\* poll_read returns Poll::Ready(Ok(usize::MAX)), having written nothing:
\* g.len + n passes the range of usize when g.len > 0.
ReadWrap ==
    /\ pc = "read"
    /\ Len(hist) < MaxCalls
    /\ g_len > 0
    /\ LET n == UsizeRange - 1
       IN  /\ hist' = Append(hist, <<"wrap", 0, n>>)
           /\ Handle("wrap", n, 0)
    /\ reads' = reads + 1
    /\ UNCHANGED <<buf_cap, mem, trusted, overflow_checks, orig, entry,
                   entry_hist, late, extra, cap0, grown>>

\* poll_read returns Poll::Ready(Ok(0)): ret = Poll::Ready(Ok(())); break.
ReadEof ==
    /\ pc = "read"
    /\ Len(hist) <= MaxCalls
    /\ hist' = Append(hist, <<"eof", 0, 0>>)
    /\ reads' = reads + 1
    /\ Handle("eof", 0, 0)
    /\ UNCHANGED <<buf_cap, mem, trusted, overflow_checks, orig, entry,
                   entry_hist, late, extra, cap0, grown>>

\* poll_read returns Poll::Pending: return Poll::Pending.
ReadPending ==
    /\ pc = "read"
    /\ Len(hist) < MaxCalls
    /\ hist' = Append(hist, <<"pending", 0, 0>>)
    /\ reads' = reads + 1
    /\ Handle("pending", 0, 0)
    /\ UNCHANGED <<buf_cap, mem, trusted, overflow_checks, orig, entry,
                   entry_hist, late, extra, cap0, grown>>

\* poll_read returns Poll::Ready(Err(e)): ret = Poll::Ready(Err(e)); break.
ReadErr ==
    /\ pc = "read"
    /\ Len(hist) <= MaxCalls
    /\ \E e \in Errors :
        /\ hist' = Append(hist, <<"err", e, 0>>)
        /\ Handle("err", 0, e)
    /\ reads' = reads + 1
    /\ UNCHANGED <<buf_cap, mem, trusted, overflow_checks, orig, entry,
                   entry_hist, late, extra, cap0, grown>>

\* poll_read panics: the unwind drops the Guard on its way out.
ReadPanic ==
    /\ pc = "read"
    /\ Len(hist) <= MaxCalls
    /\ hist' = Append(hist, <<"panic", 0, 0>>)
    /\ reads' = reads + 1
    /\ Return(g_len, "unwind", 0)
    /\ UNCHANGED <<buf_cap, mem, g_len, trusted, overflow_checks, orig, entry,
                   entry_hist, late, extra, cap0, grown>>

Next ==
    \/ Poll
    \/ Grow
    \/ NoGrow
    \/ ReadChunk
    \/ ReadOver
    \/ ReadWrap
    \/ ReadEof
    \/ ReadPending
    \/ ReadErr
    \/ ReadPanic

Spec == Init /\ [][Next]_vars

\* The caller polls again after every Pending (and polls a first time).
Resume == Poll /\ ret \in {"none", "pending"}

\* poll_read comes back: the reader answers every call made to it.
ReaderAnswers ==
    \/ ReadChunk \/ ReadOver \/ ReadWrap
    \/ ReadEof \/ ReadPending \/ ReadErr \/ ReadPanic

\* The operation driven to completion: the code of a running call goes on,
\* the reader answers, and the caller resumes after Pending.  The reader's
\* non-terminal outcomes are finitely many (MaxCalls).
FairSpec ==
    /\ Init /\ [][Next]_vars
    /\ WF_vars(Resume)
    /\ WF_vars(Grow)
    /\ WF_vars(NoGrow)
    /\ WF_vars(ReaderAnswers)

(* --------------------------- draining a payload ------------------------- *)
(* The operation driven from an empty buffer to its first Ready(Ok) on a   *)
(* reader that holds up to MaxPayload bytes, reports only counts that fit  *)
(* the slice, suspends where it likes and ends with Ok(0).                 *)

Min(a, b) == IF a <= b THEN a ELSE b

\* The sizes of chunk the draining reader tries: a short one, and as much as
\* the slice takes of what it has left.
DrainSizes(slice, left) ==
    {n \in {5, Min(slice, left)} : n >= 1 /\ n <= slice /\ n <= left}

\* An empty buffer, Vec::new() or Vec::with_capacity(32).
DrainInit ==
    /\ orig = <<>>
    /\ buf_len = 0
    /\ \E c \in {0, ReserveSize} :
        /\ buf_cap = c
        /\ cap0 = c
        /\ mem = [i \in 1..c |-> Uninit]
    /\ trusted \in BOOLEAN
    /\ overflow_checks \in BOOLEAN
    /\ g_len = 0
    /\ pc = "idle"
    /\ ret = "none"
    /\ ret_err = 0
    /\ hist = <<>>
    /\ reads = 0
    /\ entry = <<>>
    /\ entry_hist = 0
    /\ done = FALSE
    /\ late = FALSE
    /\ extra = 0
    /\ grown = 0

\* ReadToEnd::poll, called a first time and after every Pending.
DrainPoll ==
    /\ pc = "idle"
    /\ ret \in {"none", "pending"}
    /\ g_len' = GuardNew(buf_len)
    /\ entry' = Content
    /\ entry_hist' = Len(hist)
    /\ reads' = 0
    /\ late' = done
    /\ pc' = "top"
    /\ UNCHANGED <<buf_len, buf_cap, mem, ret, ret_err, trusted, overflow_checks,
                   orig, hist, done, extra, cap0, grown>>

\* poll_read returns Poll::Ready(Ok(n)), n bytes written: g.len += n.
DrainChunk ==
    /\ pc = "read"
    /\ Len(hist) < MaxDrainReads
    /\ \E n \in DrainSizes(buf_len - g_len, MaxPayload - Produced(hist)) :
        /\ mem' = WriteSlice(mem, g_len, n, Produced(hist))
        /\ hist' = Append(hist, <<"chunk", n, n>>)
        /\ Handle("chunk", n, 0)
    /\ reads' = reads + 1
    /\ UNCHANGED <<buf_cap, trusted, overflow_checks, orig, entry,
                   entry_hist, late, extra, cap0, grown>>

\* poll_read returns Poll::Pending.
DrainPending ==
    /\ pc = "read"
    /\ Len(hist) < MaxDrainReads
    /\ hist' = Append(hist, <<"pending", 0, 0>>)
    /\ reads' = reads + 1
    /\ Handle("pending", 0, 0)
    /\ UNCHANGED <<buf_cap, mem, trusted, overflow_checks, orig, entry,
                   entry_hist, late, extra, cap0, grown>>

\* poll_read returns Poll::Ready(Ok(0)).
DrainEof ==
    /\ pc = "read"
    /\ hist' = Append(hist, <<"eof", 0, 0>>)
    /\ reads' = reads + 1
    /\ Handle("eof", 0, 0)
    /\ UNCHANGED <<buf_cap, mem, trusted, overflow_checks, orig, entry,
                   entry_hist, late, extra, cap0, grown>>

DrainNext ==
    \/ DrainPoll
    \/ Grow
    \/ NoGrow
    \/ DrainChunk
    \/ DrainPending
    \/ DrainEof

DrainSpec == DrainInit /\ [][DrainNext]_vars

(* ---------------- one call run to completion, as a function ------------- *)

\* read_to_end_internal run in a single call on a reader that never suspends
\* and holds the given script of outcomes ended by Ok(0) or Err(e): the loop
\* from the state (len, cap, m, glen), the reader's stream at position pos.
\* A chunk larger than the slice it is offered is delivered over as many
\* poll_read calls as it takes; a count that is too large is reported as is.
RECURSIVE Loop(_, _, _, _, _, _)
Loop(len, cap, m, glen, script, pos) ==
    LET grows == glen = len
        capacity == IF grows THEN Reserve(cap, len, ReserveSize) ELSE cap
        len1 == IF grows THEN SetLenToCapacity(capacity) ELSE len
        m1 == IF grows
              THEN Initialize(Realloc(m, len, cap, capacity), glen, len1, trusted)
              ELSE m
        slice == len1 - glen
        exit(value, e) ==
            LET n == GuardDrop(glen, len1, value)
            IN  [ret |-> value, err |-> e, len |-> n,
                 content |-> [i \in 1..n |-> IF i <= capacity THEN m1[i] ELSE OutOfAlloc]]
    IN  IF script = <<>>
        THEN exit("stuck", 0)
        ELSE IF slice < 0
        THEN exit("unwind", 0)
        ELSE LET kind == script[1][1]
                 honest == kind = "chunk"
                 n == script[1][3]
                 d == IF ~honest THEN 0 ELSE IF n <= slice THEN n ELSE slice
                 rest == IF honest /\ d < n
                         THEN <<(<<"chunk", n - d, n - d>>)>> \o Tail(script)
                         ELSE Tail(script)
                 count == IF honest THEN d ELSE n
             IN  IF Match(kind) = "continue"
                 THEN IF overflow_checks /\ Overflows(glen, count)
                      THEN exit("unwind", 0)
                      ELSE Loop(len1, capacity, WriteSlice(m1, glen, d, pos),
                                WrappingAdd(glen, count), rest, pos + d)
                 ELSE exit(Match(kind),
                           IF Match(kind) = "err" THEN ErrValue(script[1][2]) ELSE 0)

\* The single call on the buffer as it was before the operation.
RunOnce(script) ==
    Loop(Len(orig), cap0,
         [i \in 1..cap0 |-> IF i <= Len(orig) THEN orig[i] ELSE Uninit],
         GuardNew(Len(orig)), script, 0)

\* The reader's outcomes with the suspensions removed.
NoSuspends(h) == SelectSeq(h, LAMBDA o : o[1] # "pending")

(* ------------------------------ the claims ------------------------------ *)

\* The buffer's length when the running (last) call began.
entry_len == Len(entry)

\* A poll call has returned a value to its caller (it did not unwind).
Returned == pc = "idle" /\ ret \in {"pending", "ok", "err"}

\* The first k bytes of the reader's stream.
Stream(k) == [p \in 1..k |-> SrcByte(p)]

\* The last outcome of the reader.
LastKind == IF hist = <<>> THEN "none" ELSE hist[Len(hist)][1]

\* Every count the reader has reported fitted the slice it was given.
Honest(h) == \A i \in 1..Len(h) : h[i][1] \notin {"over", "wrap"}

\* Bytes the reader has reported as read since the running (last) call began.
ReportedInCall == Reported(hist) - Reported(SubSeq(hist, 1, entry_hist))

\* C1: whenever poll has returned (Pending, Ready(Ok) or Ready(Err)), the
\* buffer's length is the committed length, which is the original length plus
\* all the bytes the reader has reported as read; it lies within the capacity
\* and covers no cell that is uninitialized or only zeroed by the initializer.
C1_LengthAtReturn ==
    Returned =>
        /\ buf_len = g_len
        /\ buf_len = Len(orig) + Reported(hist)
        /\ buf_len <= buf_cap
        /\ \A i \in 1..buf_len : Content[i] \notin {Uninit, Zeroed, OutOfAlloc}

\* C2: whenever poll has returned, the buffer holds the original content
\* followed by the bytes of the chunks read so far, in the reader's order.
C2_ContentInOrder ==
    Returned => Content = orig \o Stream(Produced(hist))

\* C3: when poll has returned Ready(Err(e)), e is the error the reader's last
\* outcome carried, and the buffer's length is the original length plus the k
\* bytes read before it.
C3_ErrorLength ==
    (pc = "idle" /\ ret = "err") =>
        /\ hist # <<>>
        /\ hist[Len(hist)] = <<"err", ret_err, 0>>
        /\ ret_err \in Errors
        /\ buf_len = Len(orig) + Produced(hist)

\* C4: every step that ends a poll call, on the Ok, Err, Pending and unwind
\* paths alike, leaves the buffer's length equal to the Guard's len; after an
\* unwind out of poll_read that is the original length plus the bytes read
\* before it, all of them written.
C4_GuardOnEveryExit ==
    [][(pc # "idle" /\ pc' = "idle") =>
          /\ buf_len' = g_len
          /\ g_len' = g_len
          /\ (ret' = "unwind" /\ hist' # hist /\ hist'[Len(hist')][1] = "panic") =>
                /\ buf_len' = Len(orig) + Produced(hist)
                /\ \A i \in 1..buf_len' : mem'[i] \notin {Uninit, Zeroed}]_vars

\* The part of C4 that is the Guard's own: every step that ends a poll call,
\* whatever the path, sets the buffer's length to the Guard's len.
GuardRunsOnEveryExit ==
    [][(pc # "idle" /\ pc' = "idle") => (buf_len' = g_len /\ g_len' = g_len)]_vars

\* C1 to C4 for a reader whose counts have all fitted the slice.
HonestReturns ==
    Honest(hist) =>
        /\ C1_LengthAtReturn
        /\ C2_ContentInOrder
        /\ C3_ErrorLength
        /\ (pc = "idle" /\ ret = "unwind") =>
              /\ buf_len = Len(orig) + Produced(hist)
              /\ \A i \in 1..buf_len : mem[i] \notin {Uninit, Zeroed}

\* C5: a reader whose initializer zeroes is never handed an uninitialized
\* cell: at every poll_read call the whole slice g.buf[g.len..] is zeroed or
\* written.  For a reader whose initializer is nop nothing is ever zeroed.
C5_SliceInitialized ==
    /\ (pc = "read" /\ ~trusted) =>
            /\ buf_len <= buf_cap
            /\ \A i \in (g_len + 1)..buf_len : mem[i] # Uninit
    /\ trusted => \A i \in DOMAIN mem : mem[i] # Zeroed

\* C5 witness: a zeroing reader about to be called in a later call, after a
\* growth, on a slice that holds zeroed cells.
C5_Witness ==
    /\ pc = "read" /\ ~trusted
    /\ ret = "pending"
    /\ buf_cap > ReserveSize
    /\ mem[buf_len] = Zeroed

\* C6: a poll call returns Pending exactly in the step where poll_read
\* reports Pending; that step ends the call at once, leaves the committed
\* length as it was and the buffer's length equal to it.
C6_PendingExactly ==
    [][LET suspended == hist' # hist /\ hist'[Len(hist')][1] = "pending"
       IN  /\ (pc # "idle" /\ pc' = "idle" /\ ret' = "pending") <=> suspended
           /\ suspended =>
                /\ pc = "read" /\ pc' = "idle"
                /\ reads' = reads + 1
                /\ g_len' = g_len
                /\ buf_len' = g_len]_vars

\* C6 witness: a Pending return in a call that read a chunk first.
C6_Witness ==
    /\ pc = "idle" /\ ret = "pending"
    /\ reads = 2
    /\ g_len > entry_len
    /\ buf_len = g_len

\* The caller has the operation's first Ready value, and no call unwound on
\* the way (the reader did not panic, and no count overflowed under overflow
\* checks or passed the slice).
FirstReady ==
    /\ pc = "idle" /\ ret \in {"ok", "err"} /\ ~late
    /\ \A i \in 1..Len(hist) :
          hist[i][1] \in {"chunk", "wrap", "pending", "eof", "err"}
    /\ overflow_checks => \A i \in 1..Len(hist) : hist[i][1] # "wrap"

\* C7: when the caller resumes after every Pending and the reader's
\* non-terminal outcomes run out, every behaviour in which no call unwinds
\* reaches a Ready value, Ok or Err.
C7_EventuallyReady ==
    [](ret # "unwind") => <>(pc = "idle" /\ ret \in {"ok", "err"})

\* C7 witness: Ready reached after two suspensions and a chunk.
C7_Witness ==
    /\ FirstReady
    /\ Len(hist) = 4
    /\ Len(NoSuspends(hist)) = 2
    /\ Produced(hist) > 0

\* C8: the step in which poll_read reports Err(e) ends the call with
\* Ready(Err(e)), that same e, with no further poll_read; and a call ends
\* with Ready(Err) only in such a step.
C8_ErrorVerbatim ==
    [][LET failed == hist' # hist /\ hist'[Len(hist')][1] = "err"
       IN  /\ failed =>
                /\ pc' = "idle" /\ ret' = "err"
                /\ ret_err' = hist'[Len(hist')][2]
                /\ reads' = reads + 1
           /\ (pc # "idle" /\ pc' = "idle" /\ ret' = "err") => failed]_vars

\* C8 witness: the first error value returned by a call resumed after a
\* suspension, as its second read.
C8_Witness ==
    /\ pc = "idle" /\ ret = "err" /\ ret_err = 1
    /\ reads = 2
    /\ \E i \in 1..Len(hist) : hist[i][1] = "pending"

\* The outcomes of Scenario A: 5 bytes, Pending, 10 bytes, 0 bytes.
ScenarioA ==
    <<(<<"chunk", 5, 5>>), (<<"pending", 0, 0>>),
      (<<"chunk", 10, 10>>), (<<"eof", 0, 0>>)>>

\* C9: the first Ready value and the buffer content it comes with are those
\* of the single call run on the same outcomes with the suspensions removed;
\* and the outcomes 5 bytes, Pending, 10 bytes, 0 bytes end in Ok with the
\* length up by 15.
C9_SuspensionsLoseNothing ==
    FirstReady =>
        /\ LET once == RunOnce(NoSuspends(hist))
           IN  /\ once.ret = ret
               /\ once.err = ret_err
               /\ once.content = Content
        /\ hist = ScenarioA => (ret = "ok" /\ buf_len = Len(orig) + 15)

\* C9 witness: Scenario A on a buffer with original content.
C9_Witness ==
    /\ FirstReady
    /\ Len(orig) > 0
    /\ hist = ScenarioA

\* C10: when a poll call made after a Ready value returns, the content the
\* buffer had at its entry is still there, unchanged, followed by exactly
\* the bytes the reader has reported during the call, all of them written.
C10_PollAfterReady ==
    (late /\ Returned) =>
        /\ buf_len = entry_len + ReportedInCall
        /\ buf_len >= entry_len
        /\ \A i \in 1..entry_len : i <= buf_len /\ Content[i] = entry[i]
        /\ \A i \in (entry_len + 1)..buf_len :
              Content[i] \notin {Uninit, Zeroed, OutOfAlloc}

\* C10 for a reader whose counts during the call have fitted the slice.
HonestPollAfterReady ==
    Honest(SubSeq(hist, entry_hist + 1, Len(hist))) => C10_PollAfterReady

\* C11: the committed length (Guard::len) is never past the buffer's
\* capacity and never goes down, in every step and whatever the reader
\* answers, the count of Ok(n) included.
C11_CommittedLength ==
    [][g_len' <= buf_cap' /\ g_len' >= g_len]_vars

\* C11 for a reader whose counts have all fitted the slice.
HonestCommittedLength ==
    [][Honest(hist') => (g_len' <= buf_cap' /\ g_len' >= g_len)]_vars

\* C12: the step in which poll_read reports Ok(0) ends the call with
\* Ready(Ok) and no further poll_read, and a call ends with Ready(Ok) only
\* in such a step; when Ok(0) is the reader's first outcome the buffer's
\* length and content are what they were before the operation.
C12_ZeroBytesIsEnd ==
    [][LET ended == hist' # hist /\ hist'[Len(hist')][1] = "eof"
       IN  /\ ended =>
                /\ pc' = "idle" /\ ret' = "ok"
                /\ reads' = reads + 1
                /\ hist = <<>> => (buf_len' = Len(orig) /\ Content' = orig)
           /\ (pc # "idle" /\ pc' = "idle" /\ ret' = "ok") => ended]_vars

\* C12 witness: Ok(0) as the first outcome, on a buffer with original
\* content that the growth step has reallocated.
C12_Witness ==
    /\ pc = "idle" /\ ret = "ok"
    /\ hist = <<(<<"eof", 0, 0>>)>>
    /\ reads = 1
    /\ Len(orig) > 0
    /\ buf_cap > cap0
    /\ Content = orig

\* The number of "chunk" outcomes among the reader's outcomes.
Chunks(h) == Len(SelectSeq(h, LAMBDA o : o[1] = "chunk"))

\* Scenario D has run to its end: a reader whose initializer is nop, an
\* empty buffer of capacity 32, 1000 bytes read, then Ready(Ok).
ScenarioDDone ==
    /\ trusted /\ orig = <<>> /\ cap0 = 32
    /\ pc = "idle" /\ ret = "ok"
    /\ Produced(hist) = 1000

\* C13 as stated: in Scenario D the 1000 bytes come out of a single
\* poll_read call.
C13_OneAttempt ==
    ScenarioDDone => Chunks(hist) = 1

\* C13, amended: in Scenario D the 1000 bytes take at least six poll_read
\* calls, none handing over more than 512 bytes; the length is up by 1000
\* and the content is the reader's 1000 bytes; the capacity is 32 doubled
\* once per growth and holds them; nothing was zeroed; and when the 1000
\* bytes come in one poll call (no Pending) the capacity has doubled five
\* times, to 1024.
C13_ScenarioD ==
    ScenarioDDone =>
        /\ Chunks(hist) >= 6
        /\ \A i \in 1..Len(hist) : hist[i][2] <= 512
        /\ buf_len = 1000
        /\ Content = Stream(1000)
        /\ buf_cap = 32 * 2^grown
        /\ buf_cap >= 1000
        /\ \A i \in DOMAIN mem : mem[i] # Zeroed
        /\ NoSuspends(hist) = hist => (grown = 5 /\ buf_cap = 1024)

\* C13 witness: Scenario D run in one poll call with the reader filling
\* every slice it is given.
C13_Witness ==
    /\ ScenarioDDone
    /\ hist = <<(<<"chunk", 32, 32>>), (<<"chunk", 32, 32>>),
                (<<"chunk", 64, 64>>), (<<"chunk", 128, 128>>),
                (<<"chunk", 256, 256>>), (<<"chunk", 488, 488>>),
                (<<"eof", 0, 0>>)>>
    /\ buf_len = 1000 /\ buf_cap = 1024

\* C14: draining from an empty buffer, whatever the sizes of the chunks and
\* wherever the reader suspends, the reserve calls that have enlarged the
\* capacity number at most log2(S / 32 + 1) + 2 when S bytes have been
\* read: 16 * 2^(grown - 1) <= S + 32.  (A reserve call that finds 32 spare
\* bytes leaves the capacity alone and is not a growth.)
C14_LogarithmicGrowth ==
    /\ grown >= 1 => 16 * 2^(grown - 1) <= Produced(hist) + 32
    /\ grown >= 1 => buf_cap = 32 * 2^(grown - (IF cap0 = 0 THEN 1 ELSE 0))

\* C14 witness: a payload drained to Ready(Ok) through short chunks and
\* suspensions, the capacity enlarged four times or more.
C14_Witness ==
    /\ pc = "idle" /\ ret = "ok"
    /\ grown >= 4
    /\ \E i \in 1..Len(hist) : hist[i][1] = "pending"
    /\ \E i \in 1..Len(hist) : hist[i] = <<"chunk", 5, 5>>

\* What C15 says of a step taken from the top of the loop.
GrowthStep ==
    IF g_len = buf_len
    THEN /\ pc' = "read"
         /\ buf_len' = buf_cap'
         /\ buf_cap' >= g_len + ReserveSize
    ELSE /\ buf_cap' = buf_cap /\ mem' = mem /\ grown' = grown
         /\ g_len < buf_len => (pc' = "read" /\ buf_len' = buf_len)

\* C15: an iteration of the loop grows the buffer exactly when the committed
\* length equals the buffer's length; right after the growth the length is
\* the new capacity, which is at least the committed length + 32; and an
\* iteration that starts with the committed length below the buffer's
\* length goes to its poll_read with the buffer as it was.
C15_GrowthExactlyWhenFull ==
    [][pc = "top" => GrowthStep]_vars

\* C15 for a reader whose counts have all fitted the slice.
HonestGrowth ==
    [][(pc = "top" /\ Honest(hist)) => GrowthStep]_vars

\* What C16 says of a step in which poll_read comes back: it was given the
\* slice [g.len, buf.len()), wrote no cell outside it, left the original
\* content and every byte read before where they were, and a count n > 0
\* moved the committed length up by n.
ReadOnSpareSlice ==
    LET o == hist'[Len(hist')]
    IN  /\ g_len <= buf_len
        /\ \A i \in DOMAIN mem : (i <= g_len \/ i > buf_len) => mem'[i] = mem[i]
        /\ \A i \in 1..Len(orig) : mem'[i] = orig[i]
        /\ \A i \in 1..Produced(hist) :
              mem'[Len(orig) + i] = SrcByte(i)
        /\ o[1] \in {"chunk", "over", "wrap"} => g_len' = g_len + o[3]

\* C16: every poll_read is made on the slice from the committed length to
\* the buffer's length; the cells below the committed length, the original
\* content among them, are never written again; Ok(n) with n > 0 advances
\* the committed length by exactly n.
C16_SpareSliceOnly ==
    [][(pc = "read" /\ hist' # hist) => ReadOnSpareSlice]_vars

\* C16 for a reader whose counts have all fitted the slice.
HonestSpareSlice ==
    [][(pc = "read" /\ hist' # hist /\ Honest(hist')) => ReadOnSpareSlice]_vars

\* C17: the slice given to poll_read is never empty: every iteration that
\* reaches its poll_read does so with at least 1 byte of slice, and with at
\* least 32 when it has just grown the buffer; so every outcome of the
\* reader, Ok(0) included, answers a call made on a slice of 1 byte or more.
C17_SliceNeverEmpty ==
    [][/\ (pc = "top" /\ pc' = "read") =>
            /\ buf_len' - g_len' >= 1
            /\ g_len = buf_len => buf_len' - g_len' >= ReserveSize
       /\ (pc = "read" /\ hist' # hist) => buf_len - g_len >= 1]_vars

\* C17 witness: a chunk has filled the buffer to its capacity, and the next
\* poll_read is about to be made on 32 fresh bytes.
C17_Witness ==
    /\ pc = "read"
    /\ reads >= 1
    /\ cap0 = ReserveSize
    /\ g_len = cap0
    /\ buf_len - g_len = ReserveSize

\* C18: a poll call begins with the buffer's length equal to the committed
\* length, which after an earlier call is the length that call's Guard left;
\* so its first iteration takes the growth branch, and reaches its first
\* poll_read with the length extended to a capacity of at least the
\* committed length + 32 and, when the reader's initializer zeroes, the
\* whole slice zeroed; and the capacity never goes down.
C18_ResumeGrowsFirst ==
    [][/\ (pc = "idle" /\ pc' = "top") =>
            /\ g_len' = buf_len' /\ buf_len' = buf_len
            /\ reads' = 0
            /\ ret # "none" => buf_len = g_len
       /\ (pc = "top" /\ reads = 0) => g_len = buf_len
       /\ (pc = "top" /\ reads = 0 /\ pc' = "read") =>
            /\ buf_len' = buf_cap'
            /\ buf_cap' >= g_len + ReserveSize
            /\ ~trusted => \A i \in (g_len + 1)..buf_len' : mem'[i] = Zeroed
       /\ buf_cap' >= buf_cap]_vars

\* C18 witness: a call resumed after a Pending that left fewer than 32 spare
\* bytes of a capacity of 32, about to make its first poll_read: the
\* capacity has doubled.
C18_Witness ==
    /\ pc = "read" /\ reads = 0
    /\ ret = "pending"
    /\ cap0 = ReserveSize
    /\ g_len > 0 /\ g_len < cap0
    /\ buf_cap = 2 * cap0
    /\ buf_len = buf_cap

====
